---- MODULE Spec2Model ----
(***************************************************************************)
(* The two ECG anomaly-detection notebooks, run top to bottom.             *)
(*                                                                         *)
(*   "hardware" : src/unnamed/part_000                                     *)
(*   "demo"     : src/Notebooks/ECG_demo/ECG Demo Notebook.ipynb           *)
(*                                                                         *)
(* A notebook is a list of code cells; a cell is a list of statements.     *)
(* The state is the Python global namespace (env: name -> object id), the  *)
(* object heap (ndarrays, layers, networks, the controller, outputs), the  *)
(* position in the notebook and the log of statements executed so far.     *)
(* A statement that reads an unbound name raises NameError: the rest of    *)
(* its cell is skipped.                                                    *)
(*                                                                         *)
(* Arrays are too large to enumerate (768 x 768), and every array          *)
(* operation of the notebooks is element-wise, so an ndarray object        *)
(* carries ONE entry: the one at (row, col), chosen in Init, for the       *)
(* recurrent matrix, and the one at (any input channel, col) for the       *)
(* input matrices.  Weights are exact rationals num * 10^(-5 * den): the   *)
(* base weights 5e-4, 8e-5, 1e-4 are 50, 8, 10 units of 1e-5.              *)
(*                                                                         *)
(* Three specifications:                                                   *)
(*   Spec       : a notebook as it stands, run top to bottom;              *)
(*   SpecExpand : the lines that generate the expansion weights;           *)
(*   SpecTrain  : the training loops.                                      *)
(* The last two are commented out in the notebooks, which load the stored  *)
(* results instead; they are modelled as they run when enabled.            *)
(***************************************************************************)
EXTENDS Integers, Sequences, FiniteSets, TLC

VARIABLES nb, pc, env, heap, trace, raised, row, col, files

\* the lines that generate the expansion weights (commented out in the
\* notebook, which loads the stored file instead), when they are run
VARIABLES gen_pc, weights_expand, num_input_conns, idx_ch_in

\* the training loops (commented out in the notebooks, which load the
\* trained readout instead), when they are run
VARIABLES train_pc, loop, batch_gen, batch, output, calls

\* the files written by np.save
VARIABLES saved

nbvars == <<nb, pc, env, heap, trace, raised, row, col, files>>
genvars == <<gen_pc, weights_expand, num_input_conns, idx_ch_in>>
trainvars == <<train_pc, loop, batch_gen, batch, output, calls>>

vars == <<nbvars, genvars, trainvars, saved>>

(***************************************************************************)
(* Bounds of the model.                                                    *)
(***************************************************************************)
\* sampled indices lie within Margin of a partition boundary
Margin == 0
\* loaded integer weights (numbers of connections) lie in -MaxW..MaxW
MaxW == 1
\* a stored readout file has at most MaxExtraCols columns more than the
\* larger NUM_ANOM_CLASSES of the two notebooks
MaxExtraCols == 1

(***************************************************************************)
(* Program constants.                                                      *)
(***************************************************************************)
NUM_ECG_LEADS == 2
NUM_ANOM_CLASSES_hw == 4
NUM_ANOM_CLASSES_demo == 5
\* "a partitioned reservoir network, consisting of 768 neurons"
NumNeurons == 768
start_rec == 128
start_inh == 128 + 512
size_expand == 128
size_rec == 512
\* base weights in units of 1e-5
baseweight_inp == 50
baseweight_expand == 50
baseweight_exp_rec == 8
baseweight_rec == 8
baseweight_rec_inh == 8
baseweight_inh == 10
\* "16 cores of 256 neurons each"; a core is a 16 x 16 grid
NeuronsPerCore == 256
CoreWidth == 16
CoreHeight == 16
\* the slice [:, :4] / [:4] applied to the stored hardware readout
HwReadoutSlice == 4

NUM_ANOM_CLASSES(n) == IF n = "hardware" THEN NUM_ANOM_CLASSES_hw ELSE NUM_ANOM_CLASSES_demo

(***************************************************************************)
(* Weights as exact rationals.                                             *)
(***************************************************************************)
Unit == 100000

RECURSIVE Norm(_)
Norm(v) ==
    IF v.num = 0 THEN [num |-> 0, den |-> 0]
    ELSE IF v.den > 0 /\ v.num % Unit = 0
         THEN Norm([num |-> v.num \div Unit, den |-> v.den - 1])
         ELSE v

IntVal(n) == [num |-> n, den |-> 0]

\* v * f where f is a base weight given in units of 1e-5
Times(v, f) == Norm([num |-> v.num * f, den |-> v.den + 1])

(***************************************************************************)
(* Objects of the heap.  heap[1] stands for every value the model does not *)
(* look into (modules, numbers, the data loader, a batch, a figure).       *)
(***************************************************************************)
Opaque == [type |-> "opaque"]

Ndarray(v, c) == [type |-> "ndarray", val |-> v, cols |-> c]

\* name = <new object>
Alloc(st, name, obj) ==
    [st EXCEPT !.heap = Append(@, obj),
               !.env = (name :> (Len(st.heap) + 1)) @@ st.env]

\* name = <the object another name is bound to> (no new object)
Alias(st, name, src) ==
    [st EXCEPT !.env = (name :> st.env[src]) @@ st.env]

\* names = <values the model does not look into>
BindAll(st, names) ==
    [st EXCEPT !.env = [n \in names |-> 1] @@ st.env]

Obj(st, name) == st.heap[st.env[name]]

\* Python's a[lo:hi] on an axis: lo <= k < hi
InSlice(k, lo, hi) == lo <= k /\ k < hi

Min(a, b) == IF a < b THEN a ELSE b

(***************************************************************************)
(* numpy.                                                                  *)
(***************************************************************************)
\* name = np.load(file)
NpLoad(st, name, file, fs) ==
    Alloc(st, name, Ndarray(IntVal(fs[file].val), fs[file].cols))

\* (mutant) name = src : without .copy() the name refers to the same array
NdarrayCopy_NoCopy(st, name, src) == Alias(st, name, src)

\* name = src.copy()
NdarrayCopy(st, name, src) == Alloc(st, name, Obj(st, src))

\* name = src.copy() * f : the product is a new array
NdarrayCopyTimes(st, name, src, f) ==
    Alloc(st, name, [Obj(st, src) EXCEPT !.val = Times(@, f)])

\* name[r0:r1, c0:c1] *= f : in place, on the object name is bound to
NdarrayIMul(st, name, r, c, sl, f) ==
    IF InSlice(r, sl[1], sl[2]) /\ InSlice(c, sl[3], sl[4])
    THEN [st EXCEPT !.heap[st.env[name]].val = Times(@, f)]
    ELSE st

\* name = np.hstack((src, np.zeros((num_ch_in, extra)))) : src has `width` columns
NpHstackZeros(st, name, src, width, extra, c) ==
    Alloc(st, name,
          Ndarray(IF c < width THEN Obj(st, src).val ELSE IntVal(0), width + extra))

(***************************************************************************)
(* Layers, networks and the controller (objects of the rockpool library;   *)
(* the notebooks only construct them and call them).                       *)
(***************************************************************************)
\* spike_enc = FFUpDown(weights=NUM_ECG_LEADS, thr_up=0.1, thr_down=0.1, ...)
SpikeEncoder(st, name) ==
    Alloc(st, name, [type |-> "FFUpDown", size_in |-> NUM_ECG_LEADS, t |-> 0])

\* name = RecIAFSpkInNest(weights_in=w_in, weights_rec=w_rec, ...)
\* name = RecDynapSE(weights_in=w_in, weights_rec=w_rec, ...)
\* the layer is built from the arrays as they are at this moment
ReservoirLayer(st, name, kind, w_in, w_rec) ==
    Alloc(st, name, [type |-> kind,
                     weights_in |-> Obj(st, w_in).val,
                     weights_rec |-> Obj(st, w_rec).val,
                     t |-> 0])

\* (variant) a second readout is the first readout object under another name
ReadoutLayer_Shared(st, name, size_in, units) ==
    IF "readout" \in DOMAIN st.env
    THEN Alias(st, name, "readout")
    ELSE Alloc(st, name, [type |-> "FFExpSyn", size_in |-> size_in, size |-> units,
                          weights |-> "zeros", bias |-> "0", bias_len |-> 1, t |-> 0])

\* name = FFExpSyn(weights=np.zeros((size_in, units)), bias=0, ...)
ReadoutLayer(st, name, size_in, units) ==
    Alloc(st, name, [type |-> "FFExpSyn", size_in |-> size_in, size |-> units,
                     weights |-> "zeros", bias |-> "0", bias_len |-> 1, t |-> 0])

\* name = Network(l1, l2, l3, dt=DT_ECG): the network refers to the layer objects
NetworkOf(st, name, layers) ==
    Alloc(st, name, [type |-> "Network",
                     layers |-> [k \in 1..Len(layers) |-> st.env[layers[k]]]])

\* A[:, :k] keeps the first k columns (all of them when there are fewer);
\* k = 0 stands for no slice
Sliced(n, k) == IF k = 0 THEN n ELSE Min(n, k)

\* obj.weights = np.load(file)[:, :k]
SetWeights(st, obj, file, k, fs) ==
    [st EXCEPT !.heap[st.env[obj]].weights = file,
               !.heap[st.env[obj]].size = Sliced(fs[file].cols, k)]

\* obj.bias = np.load(file)[:k]
SetBias(st, obj, file, k, fs) ==
    [st EXCEPT !.heap[st.env[obj]].bias = file,
               !.heap[st.env[obj]].bias_len = Sliced(fs[file].cols, k)]

\* out = net.evolve(input): every layer of the network advances; the output
\* of the readout is computed with the weights the readout has now
Evolve(st, out, net) ==
    LET ls == Obj(st, net).layers
        ro == st.heap[ls[Len(ls)]]
        adv == [st EXCEPT !.heap = [k \in DOMAIN st.heap |->
                   IF \E q \in DOMAIN ls : ls[q] = k
                   THEN [st.heap[k] EXCEPT !.t = 1] ELSE st.heap[k]]]
    IN Alloc(adv, out, [type |-> "netdata", net |-> st.env[net],
                        weights |-> ro.weights, bias |-> ro.bias,
                        units |-> ro.size])

\* net.reset_all(): time and state of every layer of the network go back to 0
ResetAll(st, net) ==
    LET ls == Obj(st, net).layers
    IN [st EXCEPT !.heap = [k \in DOMAIN st.heap |->
           IF \E q \in DOMAIN ls : ls[q] = k
           THEN [st.heap[k] EXCEPT !.t = 0] ELSE st.heap[k]]]

\* controller = DynapseControlExtd()
Controller(st, name) ==
    Alloc(st, name, [type |-> "DynapseControlExtd", biases |-> FALSE, silenced |-> FALSE])

\* controller.load_biases(bias_path)
LoadBiases(st, c) == [st EXCEPT !.heap[st.env[c]].biases = TRUE]

\* hot_neurons = controller.silence_hot_neurons(neuron_ids, dur)
SilenceHotNeurons(st, c) ==
    BindAll([st EXCEPT !.heap[st.env[c]].silenced = TRUE], {"hot_neurons"})

(***************************************************************************)
(* Neuron arrangement on the chip.                                         *)
(***************************************************************************)
\* rockpool.devices.rectangular_neuron_arrangement: the IDs of the neurons of
\* a rectangle of the given width whose upper left corner is first_neuron,
\* row by row, on a core that is a CoreHeight x CoreWidth grid; ValueError
\* (ok = FALSE) when the rectangle does not fit onto a single core.
RectangularNeuronArrangement(first_neuron, num_neurons, width) ==
    LET num_rows == (num_neurons + width - 1) \div width
        first_row == first_neuron \div CoreWidth
        first_col == first_neuron % CoreWidth
    IN [ok |-> first_col + width <= CoreWidth
               /\ (first_row % CoreHeight) + num_rows <= CoreHeight,
        ids |-> [k \in 1..num_neurons |->
                   (first_row + ((k - 1) \div width)) * CoreWidth
                   + first_col + ((k - 1) % width)]]

\* (mutant) the inhibitory rectangle placed at 256 + 4 instead of 512 + 4
rectangular_arrangement_InhOnCore1 ==
    << [first_neuron |-> 4, num_neurons |-> 128, width |-> 8, layer |-> "input"],
       [first_neuron |-> 256, num_neurons |-> 256, width |-> 16, layer |-> "reservoir"],
       [first_neuron |-> 768, num_neurons |-> 512 - 256, width |-> 16, layer |-> "reservoir"],
       [first_neuron |-> 260, num_neurons |-> 128, width |-> 8, layer |-> "inhibitory"] >>

\* (mutant) the rectangles listed in the order of their first neuron
rectangular_arrangement_ByFirstNeuron ==
    << [first_neuron |-> 4, num_neurons |-> 128, width |-> 8, layer |-> "input"],
       [first_neuron |-> 256, num_neurons |-> 256, width |-> 16, layer |-> "reservoir"],
       [first_neuron |-> 516, num_neurons |-> 128, width |-> 8, layer |-> "inhibitory"],
       [first_neuron |-> 768, num_neurons |-> 512 - 256, width |-> 16, layer |-> "reservoir"] >>

\* the list literal rectangular_arrangement, and the partition each
\* rectangle is commented to hold
rectangular_arrangement ==
    << [first_neuron |-> 4, num_neurons |-> 128, width |-> 8, layer |-> "input"],
       [first_neuron |-> 256, num_neurons |-> 256, width |-> 16, layer |-> "reservoir"],
       [first_neuron |-> 768, num_neurons |-> 512 - 256, width |-> 16, layer |-> "reservoir"],
       [first_neuron |-> 516, num_neurons |-> 128, width |-> 8, layer |-> "inhibitory"] >>

Rectangle(k) ==
    RectangularNeuronArrangement(rectangular_arrangement[k].first_neuron,
                                 rectangular_arrangement[k].num_neurons,
                                 rectangular_arrangement[k].width)

\* neuron_ids = []; for rectangle_params in rectangular_arrangement:
\*     neuron_ids += list(rectangular_neuron_arrangement(**rectangle_params))
RECURSIVE NeuronIdsUpTo(_)
NeuronIdsUpTo(k) ==
    IF k = 0 THEN << >> ELSE NeuronIdsUpTo(k - 1) \o Rectangle(k).ids

neuron_ids == NeuronIdsUpTo(Len(rectangular_arrangement))

ArrangementFits == \A k \in DOMAIN rectangular_arrangement : Rectangle(k).ok

\* the number of loop iterations that complete: every rectangle up to the
\* first one that rectangular_neuron_arrangement rejects
FittingPrefix ==
    CHOOSE k \in 0..Len(rectangular_arrangement) :
        /\ \A j \in 1..k : Rectangle(j).ok
        /\ k = Len(rectangular_arrangement) \/ ~Rectangle(k + 1).ok

\* name = []: a new, empty list.  A list of neuron IDs is kept as the number
\* of rectangles whose IDs it holds: its value is NeuronIdsUpTo(rects)
NewList(st, name) == Alloc(st, name, [type |-> "list", rects |-> 0])

\* the body of the loop, over all its iterations:
\*     neuron_ids += list(rectangular_neuron_arrangement(**rectangle_params))
\* the list is extended in place, rectangle by rectangle, until the loop
\* ends or a rectangle raises ValueError
ExtendNeuronIds(st, name) ==
    [st EXCEPT !.heap[st.env[name]].rects = FittingPrefix,
               !.raised = IF ArrangementFits THEN st.raised ELSE "ValueError"]

\* (mutant) four consecutive IDs
virtual_neuron_ids_Consecutive == <<1, 2, 3, 4>>

virtual_neuron_ids == <<1, 2, 3, 12>>

\* the core a neuron ID lies on
CoreOf(id) == id \div NeuronsPerCore

(***************************************************************************)
(* Statements.  S(op, lbl, uses, a): operation, label written to the log,  *)
(* the global names the statement reads, and the operation's arguments.    *)
(***************************************************************************)
S(op, lbl, uses, a) == [op |-> op, lbl |-> lbl, uses |-> uses, a |-> a]

\* the effect of one statement whose names are all bound
Effect(st, s, r, c, fs) ==
    CASE s.op = "bind"        -> BindAll(st, s.a[1])
      [] s.op = "plot"        -> st
      [] s.op = "load"        -> NpLoad(st, s.a[1], s.a[2], fs)
      [] s.op = "copy"        -> NdarrayCopy(st, s.a[1], s.a[2])
      [] s.op = "copy_times"  -> NdarrayCopyTimes(st, s.a[1], s.a[2], s.a[3])
      [] s.op = "imul"        -> NdarrayIMul(st, s.a[1], r, c, s.a[2], s.a[3])
      [] s.op = "hstack"      -> NpHstackZeros(st, s.a[1], s.a[2], s.a[3], s.a[4], c)
      [] s.op = "spike_enc"   -> SpikeEncoder(st, s.a[1])
      [] s.op = "reservoir"   -> ReservoirLayer(st, s.a[1], s.a[2], s.a[3], s.a[4])
      [] s.op = "readout"     -> ReadoutLayer(st, s.a[1], s.a[2], s.a[3])
      [] s.op = "network"     -> NetworkOf(st, s.a[1], s.a[2])
      [] s.op = "set_weights" -> SetWeights(st, s.a[1], s.a[2], s.a[3], fs)
      [] s.op = "set_bias"    -> SetBias(st, s.a[1], s.a[2], s.a[3], fs)
      [] s.op = "evolve"      -> Evolve(st, s.a[1], s.a[2])
      [] s.op = "reset_all"   -> ResetAll(st, s.a[1])
      [] s.op = "controller"  -> Controller(st, s.a[1])
      [] s.op = "load_biases" -> LoadBiases(st, s.a[1])
      [] s.op = "silence"     -> SilenceHotNeurons(st, s.a[1])
      [] s.op = "new_list"    -> NewList(st, s.a[1])
      [] s.op = "neuron_ids"  -> ExtendNeuronIds(st, s.a[1])

\* one statement: NameError when it reads an unbound name; nothing once the
\* cell has raised
Exec(st, s, r, c, fs) ==
    IF st.raised # "" THEN st
    ELSE IF ~(s.uses \subseteq DOMAIN st.env) THEN [st EXCEPT !.raised = "NameError"]
    ELSE LET e == Effect(st, s, r, c, fs)
         IN IF e.raised # "" THEN e ELSE [e EXCEPT !.trace = Append(@, s.lbl)]

\* the statements of a cell, in order
RECURSIVE ExecFrom(_, _, _, _, _, _)
ExecFrom(st, stmts, k, r, c, fs) ==
    IF k > Len(stmts) THEN st
    ELSE ExecFrom(Exec(st, stmts[k], r, c, fs), stmts, k + 1, r, c, fs)

ExecCell(st, stmts, r, c, fs) == ExecFrom([st EXCEPT !.raised = ""], stmts, 1, r, c, fs)

(***************************************************************************)
(* The code cells of the hardware notebook (src/unnamed/part_000).         *)
(***************************************************************************)
Hw_install ==
    << S("bind", "import importlib", {}, <<{"importlib"}>>) >>

Hw_examples ==
    << S("bind", "import plot_examples, labels", {}, <<{"warnings", "plot_examples", "labels"}>>),
       S("plot", "plot_examples()", {"plot_examples"}, << >>) >>

Hw_data_loader ==
    << S("bind", "import ECGDataLoader", {}, <<{"ECGDataLoader"}>>),
       S("bind", "data_loader", {"ECGDataLoader"}, <<{"data_loader"}>>) >>

Hw_spike_enc ==
    << S("bind", "import FFUpDown", {}, <<{"FFUpDown"}>>),
       S("bind", "constants", {}, <<{"DT_ECG", "NUM_ECG_LEADS", "NUM_ANOM_CLASSES"}>>),
       S("spike_enc", "spike_enc", {"FFUpDown", "NUM_ECG_LEADS", "DT_ECG"}, <<"spike_enc">>) >>

\* (mutant) the last slice written [start_inh:, start_rec:], its column range
\* left open, so that it reaches into the inhibitory columns
Hw_scale_rec_OpenSlice ==
    << S("imul", "scale exp->rec", {"weights_rec_scaled", "start_rec", "start_inh", "baseweight_exp_rec"},
         <<"weights_rec_scaled", <<0, start_rec, start_rec, start_inh>>, baseweight_exp_rec>>),
       S("imul", "scale rec->rec", {"weights_rec_scaled", "start_rec", "start_inh", "baseweight_rec"},
         <<"weights_rec_scaled", <<start_rec, start_inh, start_rec, start_inh>>, baseweight_rec>>),
       S("imul", "scale rec->inh", {"weights_rec_scaled", "start_rec", "start_inh", "baseweight_rec_inh"},
         <<"weights_rec_scaled", <<start_rec, start_inh, start_inh, NumNeurons>>, baseweight_rec_inh>>),
       S("imul", "scale inh->rec", {"weights_rec_scaled", "start_rec", "start_inh", "baseweight_inh"},
         <<"weights_rec_scaled", <<start_inh, NumNeurons, start_rec, NumNeurons>>, baseweight_inh>>) >>

Hw_scale_rec ==
    << S("imul", "scale exp->rec", {"weights_rec_scaled", "start_rec", "start_inh", "baseweight_exp_rec"},
         <<"weights_rec_scaled", <<0, start_rec, start_rec, start_inh>>, baseweight_exp_rec>>),
       S("imul", "scale rec->rec", {"weights_rec_scaled", "start_rec", "start_inh", "baseweight_rec"},
         <<"weights_rec_scaled", <<start_rec, start_inh, start_rec, start_inh>>, baseweight_rec>>),
       S("imul", "scale rec->inh", {"weights_rec_scaled", "start_rec", "start_inh", "baseweight_rec_inh"},
         <<"weights_rec_scaled", <<start_rec, start_inh, start_inh, NumNeurons>>, baseweight_rec_inh>>),
       S("imul", "scale inh->rec", {"weights_rec_scaled", "start_rec", "start_inh", "baseweight_inh"},
         <<"weights_rec_scaled", <<start_inh, NumNeurons, start_rec, start_inh>>, baseweight_inh>>) >>

Hw_new_reservoir ==
    << S("reservoir", "reservoir",
         {"RecIAFSpkInNest", "weights_res_in_scaled", "weights_rec_scaled", "kwargs_reservoir"},
         <<"reservoir", "RecIAFSpkInNest", "weights_res_in_scaled", "weights_rec_scaled">>) >>

Hw_reservoir ==
    << S("bind", "import np, RecIAFSpkInNest", {}, <<{"np", "RecIAFSpkInNest"}>>),
       S("load", "weights_res_in = np.load", {"np"}, <<"weights_res_in", "network/weights_res_in.npy">>),
       S("load", "weights_rec = np.load", {"np"}, <<"weights_rec", "network/weights_rec.npy">>),
       S("bind", "start_rec, start_inh", {}, <<{"start_rec", "start_inh"}>>),
       S("bind", "baseweights", {},
         <<{"baseweight_inp", "baseweight_exp_rec", "baseweight_rec",
            "baseweight_rec_inh", "baseweight_inh"}>>),
       S("copy_times", "weights_res_in_scaled", {"weights_res_in", "baseweight_inp"},
         <<"weights_res_in_scaled", "weights_res_in", baseweight_inp>>),
       S("copy", "weights_rec_scaled", {"weights_rec"}, <<"weights_rec_scaled", "weights_rec">>) >>
    \o Hw_scale_rec
    \o << S("bind", "kwargs_reservoir", {"np"}, <<{"kwargs_reservoir"}>>) >>
    \o Hw_new_reservoir

Hw_readout ==
    << S("bind", "import FFExpSyn", {}, <<{"FFExpSyn"}>>),
       S("readout", "readout", {"FFExpSyn", "np", "reservoir", "NUM_ANOM_CLASSES", "DT_ECG"},
         <<"readout", NumNeurons, NUM_ANOM_CLASSES_hw>>) >>

Hw_sw_net ==
    << S("bind", "import Network", {}, <<{"Network"}>>),
       S("network", "sw_net", {"Network", "spike_enc", "reservoir", "readout", "DT_ECG"},
         <<"sw_net", <<"spike_enc", "reservoir", "readout">> >>) >>

Hw_load_readout ==
    << S("set_weights", "readout.weights", {"readout", "np"},
         <<"readout", "network/readout_weights.npy", 0>>),
       S("set_bias", "readout.bias", {"readout", "np"},
         <<"readout", "network/readout_bias.npy", 0>>) >>

Hw_sw_inference ==
    << S("bind", "num_beats", {}, <<{"num_beats"}>>),
       S("bind", "ecg_data", {"data_loader", "num_beats"}, <<{"ecg_data"}>>),
       S("evolve", "sw_net.evolve", {"sw_net", "ecg_data"}, <<"net_data", "sw_net">>),
       S("bind", "output", {"net_data"}, <<{"output"}>>),
       S("reset_all", "sw_net.reset_all", {"sw_net"}, <<"sw_net">>) >>

Hw_sw_plot ==
    << S("bind", "import plt, TSContinuous", {}, <<{"plt", "TSContinuous"}>>),
       S("bind", "target", {"ecg_data"}, <<{"target"}>>),
       S("bind", "any_target", {"TSContinuous", "target", "np"}, <<{"any_target"}>>),
       S("bind", "fig, axes", {"plt"}, <<{"fig", "axes"}>>),
       S("bind", "for i_anom, (ax, lbl)", {"axes", "labels"}, <<{"i_anom", "ax", "lbl"}>>),
       S("plot", "plot sw output",
         {"output", "i_anom", "ax", "any_target", "target", "lbl"}, << >>) >>

Hw_arrangement ==
    << S("bind", "import rectangular_neuron_arrangement", {}, <<{"rectangular_neuron_arrangement"}>>),
       S("bind", "rectangular_arrangement", {}, <<{"rectangular_arrangement"}>>),
       S("new_list", "neuron_ids = []", {}, <<"neuron_ids">>),
       S("bind", "for rectangle_params", {"rectangular_arrangement"}, <<{"rectangle_params"}>>),
       S("neuron_ids", "neuron_ids",
         {"neuron_ids", "rectangular_neuron_arrangement", "rectangle_params"}, <<"neuron_ids">>),
       S("bind", "virtual_neuron_ids", {}, <<{"virtual_neuron_ids"}>>) >>

\* (mutant) hot neurons silenced before the biases are loaded
Hw_controller_SilenceFirst ==
    << S("bind", "import DynapseControlExtd", {}, <<{"DynapseControlExtd"}>>),
       S("controller", "controller", {"DynapseControlExtd"}, <<"controller">>),
       S("bind", "silence_hot_neurons_dur", {}, <<{"silence_hot_neurons_dur"}>>),
       S("silence", "silence_hot_neurons",
         {"controller", "neuron_ids", "silence_hot_neurons_dur"}, <<"controller">>),
       S("bind", "bias_path", {}, <<{"bias_path"}>>),
       S("load_biases", "load_biases", {"controller", "bias_path"}, <<"controller">>) >>

Hw_controller ==
    << S("bind", "import DynapseControlExtd", {}, <<{"DynapseControlExtd"}>>),
       S("controller", "controller", {"DynapseControlExtd"}, <<"controller">>),
       S("bind", "bias_path", {}, <<{"bias_path"}>>),
       S("load_biases", "load_biases", {"controller", "bias_path"}, <<"controller">>),
       S("bind", "silence_hot_neurons_dur", {}, <<{"silence_hot_neurons_dur"}>>),
       S("silence", "silence_hot_neurons",
         {"controller", "neuron_ids", "silence_hot_neurons_dur"}, <<"controller">>) >>

Hw_reservoir_hw ==
    << S("bind", "import RecDynapSE", {}, <<{"RecDynapSE"}>>),
       S("bind", "dt_hardware", {"reservoir"}, <<{"dt_hardware"}>>),
       S("reservoir", "reservoir_hw",
         {"RecDynapSE", "weights_res_in", "weights_rec", "neuron_ids", "virtual_neuron_ids",
          "dt_hardware", "controller"},
         <<"reservoir_hw", "RecDynapSE", "weights_res_in", "weights_rec">>) >>

Hw_readout_hw ==
    << S("readout", "readout_hw", {"FFExpSyn", "np", "reservoir_hw", "NUM_ANOM_CLASSES", "DT_ECG"},
         <<"readout_hw", NumNeurons, NUM_ANOM_CLASSES_hw>>) >>

Hw_hw_net ==
    << S("reset_all", "sw_net.reset_all", {"sw_net"}, <<"sw_net">>),
       S("network", "hw_net", {"Network", "spike_enc", "reservoir_hw", "readout_hw", "DT_ECG"},
         <<"hw_net", <<"spike_enc", "reservoir_hw", "readout_hw">> >>) >>

\* (mutant) the stored hardware readout assigned without the slice
Hw_load_readout_hw_NoSlice ==
    << S("set_weights", "readout_hw.weights", {"readout_hw", "np"},
         <<"readout_hw", "network/readout_weights_hw.npy", 0>>),
       S("set_bias", "readout_hw.bias", {"readout_hw", "np"},
         <<"readout_hw", "network/readout_bias_hw.npy", 0>>) >>

Hw_load_readout_hw ==
    << S("set_weights", "readout_hw.weights", {"readout_hw", "np"},
         <<"readout_hw", "network/readout_weights_hw.npy", HwReadoutSlice>>),
       S("set_bias", "readout_hw.bias", {"readout_hw", "np"},
         <<"readout_hw", "network/readout_bias_hw.npy", HwReadoutSlice>>) >>

Hw_hw_inference ==
    << S("bind", "num_beats", {}, <<{"num_beats"}>>),
       S("bind", "ecg_data_hw", {"data_loader", "num_beats"}, <<{"ecg_data_hw"}>>),
       S("plot", "plot input", {"ecg_data_hw"}, << >>),
       S("evolve", "hw_net.evolve", {"hw_net", "ecg_data_hw"}, <<"net_data_hw", "hw_net">>),
       S("reset_all", "hw_net.reset_all", {"hw_net"}, <<"hw_net">>),
       S("bind", "output_hw", {"net_data_hw"}, <<{"output_hw"}>>) >>

Hw_hw_plot_stages ==
    << S("bind", "fig, axes", {"plt"}, <<{"fig", "axes"}>>),
       S("bind", "t_start, t_stop", {}, <<{"t_start", "t_stop"}>>),
       S("plot", "abs readout", {"net_data_hw"}, << >>),
       S("bind", "for layername, ax", {"axes"}, <<{"layername", "ax"}>>),
       S("plot", "plot hw stages", {"layername", "net_data_hw", "ax"}, << >>),
       S("bind", "target_hw", {"ecg_data_hw"}, <<{"target_hw"}>>),
       S("bind", "any_target_hw", {"TSContinuous", "target_hw", "np"}, <<{"any_target_hw"}>>),
       S("plot", "plot hw target", {"any_target_hw", "t_start", "t_stop", "ax"}, << >>) >>

Hw_hw_plot ==
    << S("bind", "fig, axes", {"plt"}, <<{"fig", "axes"}>>),
       S("bind", "for i_anom, (ax, lbl)", {"axes", "labels"}, <<{"i_anom", "ax", "lbl"}>>),
       S("plot", "plot hw output",
         {"output_hw", "i_anom", "ax", "any_target_hw", "target_hw", "lbl"}, << >>) >>

Hw_show_output ==
    << S("plot", "show output_hw", {"output_hw"}, << >>) >>

Cell(role, stmts) == [role |-> role, stmts |-> stmts]

\* (mutant) the cell that loads the hardware readout moved below the
\* hardware inference cell
HardwareNotebook_LoadAfterInference ==
    << Cell("install", Hw_install), Cell("examples", Hw_examples),
       Cell("data_loader", Hw_data_loader), Cell("spike_enc", Hw_spike_enc),
       Cell("reservoir", Hw_reservoir), Cell("readout", Hw_readout),
       Cell("sw_net", Hw_sw_net), Cell("load_readout", Hw_load_readout),
       Cell("sw_inference", Hw_sw_inference), Cell("sw_plot", Hw_sw_plot),
       Cell("arrangement", Hw_arrangement), Cell("controller", Hw_controller),
       Cell("reservoir_hw", Hw_reservoir_hw), Cell("readout_hw", Hw_readout_hw),
       Cell("hw_net", Hw_hw_net), Cell("hw_inference", Hw_hw_inference),
       Cell("load_readout_hw", Hw_load_readout_hw), Cell("hw_plot_stages", Hw_hw_plot_stages),
       Cell("hw_plot", Hw_hw_plot), Cell("show_output", Hw_show_output) >>

\* the hardware notebook, top to bottom
HardwareNotebook ==
    << Cell("install", Hw_install), Cell("examples", Hw_examples),
       Cell("data_loader", Hw_data_loader), Cell("spike_enc", Hw_spike_enc),
       Cell("reservoir", Hw_reservoir), Cell("readout", Hw_readout),
       Cell("sw_net", Hw_sw_net), Cell("load_readout", Hw_load_readout),
       Cell("sw_inference", Hw_sw_inference), Cell("sw_plot", Hw_sw_plot),
       Cell("arrangement", Hw_arrangement), Cell("controller", Hw_controller),
       Cell("reservoir_hw", Hw_reservoir_hw), Cell("readout_hw", Hw_readout_hw),
       Cell("hw_net", Hw_hw_net), Cell("load_readout_hw", Hw_load_readout_hw),
       Cell("hw_inference", Hw_hw_inference), Cell("hw_plot_stages", Hw_hw_plot_stages),
       Cell("hw_plot", Hw_hw_plot), Cell("show_output", Hw_show_output) >>

(***************************************************************************)
(* The code cells of the demo notebook                                     *)
(* (src/Notebooks/ECG_demo/ECG Demo Notebook.ipynb).                       *)
(***************************************************************************)
size_inh == 128
size_reservoir == size_rec + size_inh
Demo_start_rec == size_expand
Demo_start_inh == size_expand + size_rec

Demo_constants ==
    << S("bind", "import np, plt", {}, <<{"np", "plt"}>>),
       S("bind", "constants", {},
         <<{"DT_ECG", "NUM_ECG_LEADS", "NUM_ANOM_CLASSES", "MAX_FANIN"}>>) >>

Demo_examples ==
    << S("bind", "import plot_examples, labels", {}, <<{"plot_examples", "labels"}>>),
       S("plot", "plot_examples()", {"plot_examples"}, << >>) >>

Demo_data_loader ==
    << S("bind", "import ECGDataLoader", {}, <<{"ECGDataLoader"}>>),
       S("bind", "data_loader", {"ECGDataLoader"}, <<{"data_loader"}>>) >>

Demo_spike_enc ==
    << S("bind", "import FFUpDown", {}, <<{"FFUpDown"}>>),
       S("spike_enc", "spike_enc", {"FFUpDown", "NUM_ECG_LEADS", "DT_ECG"}, <<"spike_enc">>) >>

Demo_expansion ==
    << S("bind", "num_ch_in", {"NUM_ECG_LEADS"}, <<{"num_ch_in"}>>),
       S("bind", "size_expand, baseweight_expand", {}, <<{"size_expand", "baseweight_expand"}>>),
       S("load", "weights_expand = np.load", {"np"}, <<"weights_expand", "network/weights_expand.npy">>),
       S("plot", "plot weights_expand", {"plt", "weights_expand"}, << >>) >>

Demo_scale_rec ==
    << S("imul", "scale exp->rec", {"weights_rec_scaled", "start_rec", "start_inh", "baseweight_exp_rec"},
         <<"weights_rec_scaled", <<0, Demo_start_rec, Demo_start_rec, Demo_start_inh>>, baseweight_exp_rec>>),
       S("imul", "scale rec->rec", {"weights_rec_scaled", "start_rec", "start_inh", "baseweight_rec"},
         <<"weights_rec_scaled", <<Demo_start_rec, Demo_start_inh, Demo_start_rec, Demo_start_inh>>, baseweight_rec>>),
       S("imul", "scale rec->inh", {"weights_rec_scaled", "start_rec", "start_inh", "baseweight_rec_inh"},
         <<"weights_rec_scaled", <<Demo_start_rec, Demo_start_inh, Demo_start_inh, NumNeurons>>, baseweight_rec_inh>>),
       S("imul", "scale inh->rec", {"weights_rec_scaled", "start_rec", "start_inh", "baseweight_inh"},
         <<"weights_rec_scaled", <<Demo_start_inh, NumNeurons, Demo_start_rec, Demo_start_inh>>, baseweight_inh>>) >>

Demo_reservoir_weights ==
    << S("bind", "import partitioned_2d_reservoir", {}, <<{"partitioned_2d_reservoir"}>>),
       S("bind", "sizes", {}, <<{"size_rec", "size_inh"}>>),
       S("bind", "size_reservoir", {"size_rec", "size_inh"}, <<{"size_reservoir"}>>),
       S("bind", "connection numbers", {},
         <<{"num_exp_rec", "num_inh", "num_rec_inh", "num_rec_short", "num_rec_long"}>>),
       S("bind", "baseweights", {},
         <<{"baseweight_exp_rec", "baseweight_rec", "baseweight_rec_inh", "baseweight_inh"}>>),
       S("hstack", "weights_res_in = np.hstack", {"np", "weights_expand", "num_ch_in", "size_reservoir"},
         <<"weights_res_in", "weights_expand", size_expand, size_reservoir>>),
       S("load", "weights_rec = np.load", {"np"}, <<"weights_rec", "network/weights_rec.npy">>),
       S("copy_times", "weights_res_in_scaled", {"weights_res_in", "baseweight_expand"},
         <<"weights_res_in_scaled", "weights_res_in", baseweight_expand>>),
       S("bind", "start_rec", {"size_expand"}, <<{"start_rec"}>>),
       S("bind", "start_inh", {"size_expand", "size_rec"}, <<{"start_inh"}>>),
       S("copy", "weights_rec_scaled", {"weights_rec"}, <<"weights_rec_scaled", "weights_rec">>) >>
    \o Demo_scale_rec

Demo_plot_w_in ==
    << S("plot", "plot weights_res_in_scaled", {"plt", "weights_res_in_scaled"}, << >>) >>

Demo_plot_w_rec ==
    << S("plot", "plot weights_rec_scaled", {"plt", "weights_rec_scaled"}, << >>) >>

Demo_reservoir ==
    << S("bind", "import RecIAFSpkInNest", {}, <<{"RecIAFSpkInNest"}>>),
       S("bind", "kwargs_reservoir", {"np"}, <<{"kwargs_reservoir"}>>),
       S("reservoir", "reservoir",
         {"RecIAFSpkInNest", "weights_res_in", "weights_rec", "kwargs_reservoir"},
         <<"reservoir", "RecIAFSpkInNest", "weights_res_in", "weights_rec">>) >>

Demo_readout ==
    << S("bind", "import FFExpSyn", {}, <<{"FFExpSyn"}>>),
       S("readout", "readout", {"FFExpSyn", "np", "size_full", "NUM_ANOM_CLASSES", "DT_ECG"},
         <<"readout", NumNeurons, NUM_ANOM_CLASSES_demo>>) >>

Demo_sw_net ==
    << S("bind", "import Network", {}, <<{"Network"}>>),
       S("network", "sw_net", {"Network", "spike_enc", "reservoir", "readout", "DT_ECG"},
         <<"sw_net", <<"spike_enc", "reservoir", "readout">> >>) >>

Demo_load_readout ==
    << S("set_weights", "readout.weights", {"readout", "np"},
         <<"readout", "network/readout_weights.npy", 0>>),
       S("set_bias", "readout.bias", {"readout", "np"},
         <<"readout", "network/readout_bias.npy", 0>>) >>

Demo_sw_inference ==
    << S("bind", "num_beats", {}, <<{"num_beats"}>>),
       S("bind", "ecg_data", {"data_loader", "num_beats"}, <<{"ecg_data"}>>),
       S("evolve", "sw_net.evolve", {"sw_net", "ecg_data"}, <<"net_data", "sw_net">>),
       S("bind", "output", {"net_data"}, <<{"output"}>>),
       S("reset_all", "sw_net.reset_all", {"sw_net"}, <<"sw_net">>) >>

Demo_sw_plot ==
    << S("bind", "target", {"ecg_data"}, <<{"target"}>>),
       S("bind", "any_target", {"TSContinuous", "target", "np"}, <<{"any_target"}>>),
       S("bind", "fig, axes", {"plt"}, <<{"fig", "axes"}>>),
       S("bind", "for i_anom, (ax, lbl)", {"axes", "labels"}, <<{"i_anom", "ax", "lbl"}>>),
       S("plot", "plot sw output",
         {"output", "i_anom", "ax", "any_target", "target", "lbl"}, << >>) >>

Demo_hw_imports ==
    << S("bind", "import rectangular_neuron_arrangement, DynapseControlExtd, RecDynapSE", {},
         <<{"rectangular_neuron_arrangement", "DynapseControlExtd", "RecDynapSE"}>>),
       S("bind", "bias_path, silence_hot_neurons_dur", {},
         <<{"bias_path", "silence_hot_neurons_dur"}>>) >>

Demo_arrangement ==
    << S("bind", "rectangular_arrangement", {"size_in", "size_rec", "size_inhib"},
         <<{"rectangular_arrangement"}>>),
       S("new_list", "neuron_ids = []", {}, <<"neuron_ids">>),
       S("bind", "for rectangle_params", {"rectangular_arrangement"}, <<{"rectangle_params"}>>),
       S("neuron_ids", "neuron_ids",
         {"neuron_ids", "rectangular_neuron_arrangement", "rectangle_params"}, <<"neuron_ids">>),
       S("bind", "virtual_neuron_ids", {}, <<{"virtual_neuron_ids"}>>) >>

Demo_controller ==
    << S("controller", "controller", {"DynapseControlExtd", "reservoir"}, <<"controller">>),
       S("load_biases", "load_biases", {"controller", "bias_path"}, <<"controller">>),
       S("silence", "silence_hot_neurons",
         {"controller", "neuron_ids", "silence_hot_neurons_dur"}, <<"controller">>) >>

Demo_reservoir_hw ==
    << S("reservoir", "reservoir_hw",
         {"RecDynapSE", "weights_res_in", "weights_rec", "neuron_ids", "virtual_neuron_ids",
          "reservoir", "controller"},
         <<"hw_layer", "RecDynapSE", "weights_res_in", "weights_rec">>) >>

Demo_readout_hw ==
    << S("readout", "readout_hw", {"FFExpSyn", "np", "size_full", "NUM_ANOM_CLASSES", "DT_ECG"},
         <<"readout_hw", NumNeurons, NUM_ANOM_CLASSES_demo>>) >>

Demo_hw_net ==
    << S("reset_all", "sw_net.reset_all", {"sw_net"}, <<"sw_net">>),
       S("network", "hw_net", {"Network", "spike_enc", "hw_layer", "readout_hw", "DT_ECG"},
         <<"hw_net", <<"spike_enc", "hw_layer", "readout_hw">> >>) >>

Demo_load_readout_hw ==
    << S("set_weights", "readout_hw.weights", {"readout_hw", "np"},
         <<"readout_hw", "network/readout_weights_hw.py", 0>>),
       S("set_bias", "readout_hw.bias", {"readout_hw", "np"},
         <<"readout_hw", "network/readout_bias_hw.py", 0>>) >>

Demo_hw_inference ==
    << S("bind", "num_beats", {}, <<{"num_beats"}>>),
       S("bind", "ecg_data", {"data_loader", "num_beats"}, <<{"ecg_data"}>>),
       S("evolve", "hw_net.evolve", {"hw_net", "ecg_data"}, <<"net_data", "hw_net">>),
       S("bind", "output", {"net_data"}, <<{"output"}>>) >>

Demo_hw_plot ==
    << S("bind", "target", {"ecg_data"}, <<{"target"}>>),
       S("bind", "any_target", {"TSContinuous", "target", "np"}, <<{"any_target"}>>),
       S("bind", "fig, axes", {"plt"}, <<{"fig", "axes"}>>),
       S("bind", "for i_anom, (ax, lbl)", {"axes", "labels"}, <<{"i_anom", "ax", "lbl"}>>),
       S("plot", "plot hw output",
         {"output", "i_anom", "ax", "any_target", "target", "lbl"}, << >>) >>

\* the demo notebook, top to bottom
DemoNotebook ==
    << Cell("constants", Demo_constants), Cell("examples", Demo_examples),
       Cell("data_loader", Demo_data_loader), Cell("spike_enc", Demo_spike_enc),
       Cell("expansion", Demo_expansion), Cell("reservoir_weights", Demo_reservoir_weights),
       Cell("plot_w_in", Demo_plot_w_in), Cell("plot_w_rec", Demo_plot_w_rec),
       Cell("reservoir", Demo_reservoir), Cell("readout", Demo_readout),
       Cell("sw_net", Demo_sw_net), Cell("load_readout", Demo_load_readout),
       Cell("sw_inference", Demo_sw_inference), Cell("sw_plot", Demo_sw_plot),
       Cell("hw_imports", Demo_hw_imports), Cell("arrangement", Demo_arrangement),
       Cell("controller", Demo_controller), Cell("reservoir_hw", Demo_reservoir_hw),
       Cell("readout_hw", Demo_readout_hw), Cell("hw_net", Demo_hw_net),
       Cell("load_readout_hw", Demo_load_readout_hw), Cell("hw_inference", Demo_hw_inference),
       Cell("hw_plot", Demo_hw_plot) >>

Notebook(n) == IF n = "hardware" THEN HardwareNotebook ELSE DemoNotebook

(***************************************************************************)
(* The files the notebooks load.  A stored weight matrix is given by its   *)
(* entry at the sampled position; a stored readout by its number of        *)
(* columns (output units).                                                 *)
(***************************************************************************)
\* row and column indices around the partition boundaries
Sample ==
    {k \in 0..(NumNeurons - 1) :
        \E b \in {0, start_rec, start_inh, NumNeurons} :
            b - 1 - Margin <= k /\ k <= b + Margin}

\* numbers of columns a stored hardware readout may have
StoredCols == 1..(NUM_ANOM_CLASSES_demo + MaxExtraCols)

\* w: entry of weights_rec; win: entry of weights_res_in / weights_expand;
\* the software readout was saved by the notebook's own training cell, with
\* one column per readout unit; the hardware readout has hwcols columns
Files(n, w, win, hwcols) ==
    [f \in {"network/weights_rec.npy", "network/weights_res_in.npy",
            "network/weights_expand.npy", "network/readout_weights.npy",
            "network/readout_bias.npy", "network/readout_weights_hw.npy",
            "network/readout_bias_hw.npy", "network/readout_weights_hw.py",
            "network/readout_bias_hw.py"} |->
        CASE f = "network/weights_rec.npy"    -> [val |-> w, cols |-> NumNeurons]
          [] f = "network/weights_res_in.npy" -> [val |-> win, cols |-> NumNeurons]
          [] f = "network/weights_expand.npy" -> [val |-> win, cols |-> size_expand]
          [] f \in {"network/readout_weights.npy", "network/readout_bias.npy"}
                                              -> [val |-> 0, cols |-> NUM_ANOM_CLASSES(n)]
          [] OTHER                            -> [val |-> 0, cols |-> hwcols]]

(***************************************************************************)
(* The run: a fresh kernel, then the cells from top to bottom.             *)
(***************************************************************************)
\* the commented-out generation lines are not run
GenOff ==
    /\ gen_pc = "off"
    /\ weights_expand = << >>
    /\ num_input_conns = << >>
    /\ idx_ch_in = 0

\* a batch or an output that does not exist yet
None == [id |-> 0]

\* the commented-out training loops are not run
TrainOff ==
    /\ train_pc = "off"
    /\ loop = "none"
    /\ batch_gen = << >>
    /\ batch = None
    /\ output = None
    /\ calls = << >>

Init ==
    /\ nb \in {"hardware", "demo"}
    /\ pc = 1
    /\ env = << >>
    /\ heap = <<Opaque>>
    /\ trace = << >>
    /\ raised = ""
    /\ row \in Sample
    /\ col \in Sample
    /\ \E w \in (-MaxW)..MaxW, win \in 0..MaxW, hwcols \in StoredCols :
          files = Files(nb, w, win, hwcols)
    /\ GenOff
    /\ TrainOff
    /\ saved = << >>

\* the cell to run next
NextCell == IF pc <= Len(Notebook(nb)) THEN Notebook(nb)[pc].role ELSE "none"

\* run the next cell: its statements in order, up to the first exception
RunCell ==
    /\ pc <= Len(Notebook(nb))
    /\ LET st == ExecCell([env |-> env, heap |-> heap, trace |-> trace, raised |-> raised],
                          Notebook(nb)[pc].stmts, row, col, files)
       IN /\ env' = st.env
          /\ heap' = st.heap
          /\ trace' = st.trace
          /\ raised' = st.raised
    /\ pc' = pc + 1
    /\ UNCHANGED <<nb, row, col, files>>
    /\ UNCHANGED <<genvars, trainvars, saved>>

CellInstall == NextCell = "install" /\ RunCell
CellConstants == NextCell = "constants" /\ RunCell
CellExamples == NextCell = "examples" /\ RunCell
CellDataLoader == NextCell = "data_loader" /\ RunCell
CellSpikeEnc == NextCell = "spike_enc" /\ RunCell
CellExpansion == NextCell = "expansion" /\ RunCell
CellReservoirWeights == NextCell = "reservoir_weights" /\ RunCell
CellPlotWIn == NextCell = "plot_w_in" /\ RunCell
CellPlotWRec == NextCell = "plot_w_rec" /\ RunCell
CellReservoir == NextCell = "reservoir" /\ RunCell
CellReadout == NextCell = "readout" /\ RunCell
CellSwNet == NextCell = "sw_net" /\ RunCell
CellLoadReadout == NextCell = "load_readout" /\ RunCell
CellSwInference == NextCell = "sw_inference" /\ RunCell
CellSwPlot == NextCell = "sw_plot" /\ RunCell
CellHwImports == NextCell = "hw_imports" /\ RunCell
CellArrangement == NextCell = "arrangement" /\ RunCell
CellController == NextCell = "controller" /\ RunCell
CellReservoirHw == NextCell = "reservoir_hw" /\ RunCell
CellReadoutHw == NextCell = "readout_hw" /\ RunCell
CellHwNet == NextCell = "hw_net" /\ RunCell
CellLoadReadoutHw == NextCell = "load_readout_hw" /\ RunCell
CellHwInference == NextCell = "hw_inference" /\ RunCell
CellHwPlotStages == NextCell = "hw_plot_stages" /\ RunCell
CellHwPlot == NextCell = "hw_plot" /\ RunCell
CellShowOutput == NextCell = "show_output" /\ RunCell

Next ==
    \/ CellInstall \/ CellConstants \/ CellExamples \/ CellDataLoader
    \/ CellSpikeEnc \/ CellExpansion \/ CellReservoirWeights \/ CellPlotWIn
    \/ CellPlotWRec \/ CellReservoir \/ CellReadout \/ CellSwNet
    \/ CellLoadReadout \/ CellSwInference \/ CellSwPlot \/ CellHwImports
    \/ CellArrangement \/ CellController \/ CellReservoirHw \/ CellReadoutHw
    \/ CellHwNet \/ CellLoadReadoutHw \/ CellHwInference \/ CellHwPlotStages
    \/ CellHwPlot \/ CellShowOutput

Spec == Init /\ [][Next]_vars

(***************************************************************************)
(* Generation of the input expansion weights: the commented-out lines of   *)
(* the demo notebook's expansion cell, run statement by statement.         *)
(*   weights_expand = np.zeros((num_ch_in, size_expand))                   *)
(*   num_input_conns = np.random.randint(1, MAX_FANIN + 1, size=size_expand)*)
(*   num_neur_per_ext = int(np.floor(size_expand / num_ch_in))             *)
(*   for idx_ch_in in range(num_ch_in):                                    *)
(*       idcs_inp = slice(idx_ch_in * num_neur_per_ext,                    *)
(*                        (idx_ch_in + 1) * num_neur_per_ext)              *)
(*       weights_expand[idx_ch_in, idcs_inp] = num_input_conns[idcs_inp]   *)
(*   np.save("weights/weights_expand.npy", weights_expand)                 *)
(* Rows and columns are counted from 0, as in the notebook.                *)
(***************************************************************************)
MAX_FANIN == 64
num_ch_in == 2 * NUM_ECG_LEADS
num_neur_per_ext == size_expand \div num_ch_in

\* (variant) a random integer between low and high, both included
RandInt_Closed(low, high) == low..high

\* np.random.randint(low, high): low included, high excluded
RandInt(low, high) == low..(high - 1)

\* np.save(file, arr) writes the file named file, with ".npy" appended when
\* the name does not end in it already
NpSaveFile(file) ==
    IF Len(file) >= 4 /\ SubSeq(file, Len(file) - 3, Len(file)) = ".npy"
    THEN file
    ELSE file \o ".npy"

\* np.zeros((rows, cols))
NpZeros(rows, cols) == [r \in 0..(rows - 1) |-> [c \in 0..(cols - 1) |-> 0]]

\* the columns whose draw is enumerated: those within Margin of a multiple
\* of 32; the other columns all get one and the same drawn value
GenSample ==
    {k \in 0..(size_expand - 1) :
        \E b \in {0, 32, 64, 96, 128} : b - 1 - Margin <= k /\ k <= b + Margin}

\* the draws of np.random.randint(1, MAX_FANIN + 1, size=size_expand) that
\* the model enumerates
Draws ==
    LET vals == RandInt(1, MAX_FANIN + 1)
    IN {[k \in 0..(size_expand - 1) |-> IF k = j THEN v ELSE b] :
           j \in GenSample, v \in vals,
           b \in {u \in vals : (\A w \in vals : u <= w) \/ (\A w \in vals : u >= w)}}

\* A[r, lo:hi] = B[lo:hi]
AssignRowSlice(A, r, lo, hi, B) ==
    [A EXCEPT ![r] = [c \in DOMAIN A[r] |->
                         IF InSlice(c, lo, hi) THEN B[c] ELSE A[r][c]]]

ExpandInit ==
    /\ nb = "demo"
    /\ pc = 1
    /\ env = << >>
    /\ heap = <<Opaque>>
    /\ trace = << >>
    /\ raised = ""
    /\ row = 0
    /\ col = 0
    /\ files = Files("demo", 0, 0, NUM_ANOM_CLASSES_demo)
    /\ gen_pc = "zeros"
    /\ weights_expand = << >>
    /\ num_input_conns = << >>
    /\ idx_ch_in = 0
    /\ TrainOff
    /\ saved = << >>

ExpandZeros ==
    /\ gen_pc = "zeros"
    /\ weights_expand' = NpZeros(num_ch_in, size_expand)
    /\ gen_pc' = "randint"
    /\ UNCHANGED <<nbvars, trainvars, num_input_conns, idx_ch_in, saved>>

ExpandRandint ==
    /\ gen_pc = "randint"
    /\ num_input_conns' \in Draws
    /\ gen_pc' = "for"
    /\ idx_ch_in' = 0
    /\ UNCHANGED <<nbvars, trainvars, weights_expand, saved>>

\* one iteration of the loop over range(num_ch_in)
ExpandAssign ==
    /\ gen_pc = "for"
    /\ idx_ch_in < num_ch_in
    /\ weights_expand' =
          AssignRowSlice(weights_expand, idx_ch_in,
                         idx_ch_in * num_neur_per_ext,
                         (idx_ch_in + 1) * num_neur_per_ext,
                         num_input_conns)
    /\ idx_ch_in' = idx_ch_in + 1
    /\ UNCHANGED <<nbvars, trainvars, gen_pc, num_input_conns, saved>>

\* the loop is over: np.save("weights/weights_expand.npy", weights_expand)
ExpandSave ==
    /\ gen_pc = "for"
    /\ idx_ch_in = num_ch_in
    /\ saved' = (NpSaveFile("weights/weights_expand.npy") :> weights_expand) @@ saved
    /\ gen_pc' = "saved"
    /\ UNCHANGED <<nbvars, trainvars, weights_expand, num_input_conns, idx_ch_in>>

ExpandNext == ExpandZeros \/ ExpandRandint \/ ExpandAssign \/ ExpandSave

SpecExpand == ExpandInit /\ [][ExpandNext]_vars

(***************************************************************************)
(* The training loops: the commented-out training cells of the notebooks,  *)
(* run statement by statement.  loop = "sw" is the software loop,          *)
(* loop = "hw" the hardware loop (which reads batchsize_training and       *)
(* regularize, names the software training cell defines).                  *)
(*   batch_gen = data_loader.get_batch_generator(...)                      *)
(*   for batch in batch_gen:                                               *)
(*       output = sw_net.evolve(batch.input)                               *)
(*       readout.train_rr(batch.target, output["reservoir"],               *)
(*                        is_first=batch.is_first, is_last=batch.is_last,  *)
(*                        regularize=regularize)                           *)
(*   sw_net.reset_all()                                                    *)
(*   np.save("network/readout_weights.npy", readout.weights)               *)
(*   np.save("network/readout_bias.npy", readout.bias)                     *)
(* The batches and their is_first / is_last flags are the data loader's:   *)
(* the generator yields any number of batches up to MaxBatches, with any   *)
(* flags.  calls is the log of the calls made, in order.                   *)
(***************************************************************************)
\* a batch generator yields at most MaxBatches batches
MaxBatches == 3

TrainNet(l) == IF l = "sw" THEN "sw_net" ELSE "hw_net"
TrainReadout(l) == IF l = "sw" THEN "readout" ELSE "readout_hw"
TrainLayerKey(l) == IF l = "sw" THEN "reservoir" ELSE "hardware"
\* the file names passed to np.save
SavePathWeights(l) ==
    IF l = "sw" THEN "network/readout_weights.npy" ELSE "weights/readout_weights_hw.py"
SavePathBias(l) ==
    IF l = "sw" THEN "network/readout_bias.npy" ELSE "weights/readout_bias_hw.py"

\* the batch sequences a generator may yield; batch k has id k
BatchGenerators ==
    UNION {{[k \in 1..n |-> [id |-> k, is_first |-> f[k].is_first,
                             is_last |-> f[k].is_last]] :
               f \in [1..n -> [is_first : BOOLEAN, is_last : BOOLEAN]]} :
           n \in 0..MaxBatches}

\* an entry of the call log
Call(op, obj, b, input, first, last) ==
    [op |-> op, obj |-> obj, batch |-> b, input |-> input,
     is_first |-> first, is_last |-> last]

\* (variant) the two flags passed in each other's place
TrainRRCall_FlagsSwapped(l, b, out) ==
    Call("train_rr", TrainReadout(l), b.id, out.id, b.is_last, b.is_first)

\* readout.train_rr(batch.target, output[key], is_first=batch.is_first,
\*                  is_last=batch.is_last, regularize=regularize)
TrainRRCall(l, b, out) ==
    Call("train_rr", TrainReadout(l), b.id, out.id, b.is_first, b.is_last)

TrainInit ==
    /\ nb = "hardware"
    /\ pc = 1
    /\ env = << >>
    /\ heap = <<Opaque>>
    /\ trace = << >>
    /\ raised = ""
    /\ row = 0
    /\ col = 0
    /\ files = Files("hardware", 0, 0, NUM_ANOM_CLASSES_hw)
    /\ GenOff
    /\ train_pc = "batch_gen"
    /\ loop \in {"sw", "hw"}
    /\ batch_gen = << >>
    /\ batch = None
    /\ output = None
    /\ calls = << >>
    /\ saved = << >>

\* batch_gen = data_loader.get_batch_generator(num_beats=..., batchsize=...)
TrainGetBatchGenerator ==
    /\ train_pc = "batch_gen"
    /\ batch_gen' \in BatchGenerators
    /\ train_pc' = "for"
    /\ UNCHANGED <<nbvars, genvars, loop, batch, output, calls, saved>>

\* for batch in batch_gen: the generator yields its next batch
TrainNextBatch ==
    /\ train_pc = "for"
    /\ batch_gen # << >>
    /\ batch' = Head(batch_gen)
    /\ batch_gen' = Tail(batch_gen)
    /\ calls' = Append(calls, Call("next", "batch_gen", Head(batch_gen).id, 0,
                                   Head(batch_gen).is_first, Head(batch_gen).is_last))
    /\ train_pc' = "evolve"
    /\ UNCHANGED <<nbvars, genvars, loop, output, saved>>

\* output = net.evolve(batch.input)
TrainEvolve ==
    /\ train_pc = "evolve"
    /\ output' = [id |-> batch.id, net |-> TrainNet(loop), key |-> TrainLayerKey(loop)]
    /\ calls' = Append(calls, Call("evolve", TrainNet(loop), batch.id, batch.id, FALSE, FALSE))
    /\ train_pc' = "train_rr"
    /\ UNCHANGED <<nbvars, genvars, loop, batch_gen, batch, saved>>

\* readout.train_rr(...), then back to the head of the loop
TrainRR ==
    /\ train_pc = "train_rr"
    /\ calls' = Append(calls, TrainRRCall(loop, batch, output))
    /\ train_pc' = "for"
    /\ UNCHANGED <<nbvars, genvars, loop, batch_gen, batch, output, saved>>

\* the generator is exhausted: the loop ends; net.reset_all()
TrainResetAll ==
    /\ train_pc = "for"
    /\ batch_gen = << >>
    /\ calls' = Append(calls, Call("reset_all", TrainNet(loop), 0, 0, FALSE, FALSE))
    /\ train_pc' = "save_weights"
    /\ UNCHANGED <<nbvars, genvars, loop, batch_gen, batch, output, saved>>

\* np.save(<weights path>, readout.weights)
TrainSaveWeights ==
    /\ train_pc = "save_weights"
    /\ saved' = (NpSaveFile(SavePathWeights(loop)) :> [obj |-> TrainReadout(loop), attr |-> "weights"])
                   @@ saved
    /\ calls' = Append(calls, Call("save_weights", TrainReadout(loop), 0, 0, FALSE, FALSE))
    /\ train_pc' = "save_bias"
    /\ UNCHANGED <<nbvars, genvars, loop, batch_gen, batch, output>>

\* np.save(<bias path>, readout.bias)
TrainSaveBias ==
    /\ train_pc = "save_bias"
    /\ saved' = (NpSaveFile(SavePathBias(loop)) :> [obj |-> TrainReadout(loop), attr |-> "bias"])
                   @@ saved
    /\ calls' = Append(calls, Call("save_bias", TrainReadout(loop), 0, 0, FALSE, FALSE))
    /\ train_pc' = "done"
    /\ UNCHANGED <<nbvars, genvars, loop, batch_gen, batch, output>>

TrainNext ==
    \/ TrainGetBatchGenerator \/ TrainNextBatch \/ TrainEvolve \/ TrainRR
    \/ TrainResetAll \/ TrainSaveWeights \/ TrainSaveBias

SpecTrain == TrainInit /\ [][TrainNext]_vars

(***************************************************************************)
(* Reading the state.                                                      *)
(***************************************************************************)
Bound(name) == name \in DOMAIN env
At(name) == heap[env[name]]
\* the loaded entries
LoadedRec == IntVal(files["network/weights_rec.npy"].val)
LoadedIn == IntVal(files["network/weights_res_in.npy"].val)
\* label a occurs in the log before every occurrence of label b
Before(a, b) ==
    \A p \in DOMAIN trace : trace[p] = b => \E q \in 1..(p - 1) : trace[q] = a
Done(a) == \E p \in DOMAIN trace : trace[p] = a
\* the set of elements of a sequence
Range(f) == {f[k] : k \in DOMAIN f}
\* the loop over the rectangles has completed: the list bound to neuron_ids
\* holds the IDs of all the rectangles
ArrangementBuilt ==
    /\ Bound("neuron_ids")
    /\ At("neuron_ids").rects = Len(rectangular_arrangement)

(***************************************************************************)
(* C1.  weights_rec_scaled is the loaded weights_rec with each of the four *)
(* partition blocks (rows 0..127 x columns 128..639, rows 128..639 x       *)
(* columns 128..639, rows 128..639 x columns 640.., rows 640.. x columns   *)
(* 128..639) multiplied exactly once by the block's own base weight, and   *)
(* every other entry as loaded; weights_res_in_scaled is weights_res_in    *)
(* times the input base weight in every entry.  Checked on the entry at    *)
(* (row, col), for every sampled row and col, in both notebooks.           *)
(***************************************************************************)
C1_BlockWeight(r, c) ==
    CASE r <= 127 /\ 128 <= c /\ c <= 639              -> baseweight_exp_rec
      [] 128 <= r /\ r <= 639 /\ 128 <= c /\ c <= 639  -> baseweight_rec
      [] 128 <= r /\ r <= 639 /\ 640 <= c              -> baseweight_rec_inh
      [] 640 <= r /\ 128 <= c /\ c <= 639              -> baseweight_inh
      [] OTHER                                         -> 0

C1_InputWeight == IF nb = "hardware" THEN baseweight_inp ELSE baseweight_expand

C1_ScaledOncePerBlock ==
    Bound("weights_rec_scaled") =>
        /\ At("weights_rec_scaled").val =
              IF C1_BlockWeight(row, col) = 0 THEN LoadedRec
              ELSE IF LoadedRec.num = 0 THEN IntVal(0)
              ELSE [num |-> LoadedRec.num * C1_BlockWeight(row, col), den |-> 1]
        /\ At("weights_res_in_scaled").val =
              IF At("weights_res_in").val.num = 0 THEN IntVal(0)
              ELSE [num |-> At("weights_res_in").val.num * C1_InputWeight, den |-> 1]

C1_Witness ==
    /\ nb = "hardware"
    /\ Bound("weights_rec_scaled")
    /\ C1_BlockWeight(row, col) # 0
    /\ LoadedRec.num # 0
    /\ At("weights_res_in").val.num # 0
    /\ At("weights_rec_scaled").val # LoadedRec

(***************************************************************************)
(* C2.  In every notebook that builds a software reservoir, the layer is   *)
(* constructed from weights_res_in_scaled and weights_rec_scaled.          *)
(* (The demo notebook passes the unscaled arrays: the statement fails.)    *)
(***************************************************************************)
C2_SoftwareReservoirScaled ==
    Bound("reservoir") =>
        /\ At("reservoir").weights_in = At("weights_res_in_scaled").val
        /\ At("reservoir").weights_rec = At("weights_rec_scaled").val

(***************************************************************************)
(* C3.  Computing the scaled matrices leaves the loaded arrays unchanged   *)
(* (both notebooks), and the hardware reservoir of the hardware notebook   *)
(* is constructed with the entries as loaded from file.                    *)
(***************************************************************************)
C3_HardwareUnscaled ==
    /\ Bound("weights_rec") => At("weights_rec").val = LoadedRec
    /\ (nb = "hardware" /\ Bound("weights_res_in")) => At("weights_res_in").val = LoadedIn
    /\ (nb = "hardware" /\ Bound("reservoir_hw")) =>
          /\ At("reservoir_hw").type = "RecDynapSE"
          /\ At("reservoir_hw").weights_rec = LoadedRec
          /\ At("reservoir_hw").weights_in = LoadedIn

C3_Witness ==
    /\ nb = "hardware"
    /\ Bound("reservoir_hw")
    /\ At("weights_rec_scaled").val # LoadedRec
    /\ At("weights_res_in_scaled").val # LoadedIn

(***************************************************************************)
(* C4.  The virtual neuron IDs and the hardware neuron IDs of the four     *)
(* rectangles are disjoint sets.                                           *)
(***************************************************************************)
VirtualIdsDisjoint == Range(virtual_neuron_ids) \cap Range(neuron_ids) = {}

C4_VirtualIdsDisjoint ==
    (ArrangementBuilt /\ Bound("virtual_neuron_ids")) => VirtualIdsDisjoint

C4_Witness ==
    /\ Bound("reservoir_hw")
    /\ At("reservoir_hw").type = "RecDynapSE"
    /\ ArrangementBuilt
    /\ Bound("virtual_neuron_ids")
    /\ Len(neuron_ids) = 768

(***************************************************************************)
(* C5.  With 256 neurons per core, every neuron ID of one rectangle lies   *)
(* on a single core, and no core holds neuron IDs of two different         *)
(* partitions (input expansion, excitatory reservoir, inhibitory).         *)
(***************************************************************************)
RectangleCores(k) == {id \div 256 : id \in Range(Rectangle(k).ids)}

PartitionsOnSeparateCores ==
    /\ \A k \in DOMAIN rectangular_arrangement : Cardinality(RectangleCores(k)) = 1
    /\ \A k1, k2 \in DOMAIN rectangular_arrangement :
          rectangular_arrangement[k1].layer # rectangular_arrangement[k2].layer
             => RectangleCores(k1) \cap RectangleCores(k2) = {}

C5_PartitionsOnSeparateCores == ArrangementBuilt => PartitionsOnSeparateCores

C5_Witness ==
    /\ ArrangementBuilt
    /\ Done("silence_hot_neurons")
    /\ Cardinality({CoreOf(id) : id \in Range(neuron_ids)}) = 4

(***************************************************************************)
(* C6.  768 neurons laid out as input expansion 0..127, excitatory         *)
(* 128..639, inhibitory 640..767: the scaling boundaries are 128 and 640,  *)
(* and index i of neuron_ids lies in a rectangle of the partition that     *)
(* row/column i of the weight matrices belongs to.                         *)
(***************************************************************************)
\* the rectangle that element i (counted from 0) of neuron_ids comes from
RectangleOfIndex(i) ==
    CHOOSE k \in DOMAIN rectangular_arrangement :
        Len(NeuronIdsUpTo(k - 1)) <= i /\ i < Len(NeuronIdsUpTo(k))

PartitionOfRow(i) ==
    IF i < start_rec THEN "input" ELSE IF i < start_inh THEN "reservoir" ELSE "inhibitory"

PartitionOfLayout(i) ==
    IF i <= 127 THEN "input" ELSE IF i <= 639 THEN "reservoir" ELSE "inhibitory"

SamePartition ==
    /\ Len(neuron_ids) = 768
    /\ start_rec = 128
    /\ start_inh = 640
    /\ \A i \in 0..767 :
          /\ rectangular_arrangement[RectangleOfIndex(i)].layer = PartitionOfRow(i)
          /\ PartitionOfRow(i) = PartitionOfLayout(i)

C6_SamePartition == (ArrangementBuilt /\ Bound("weights_rec_scaled")) => SamePartition

C6_Witness ==
    /\ ArrangementBuilt
    /\ Bound("weights_rec_scaled")
    /\ Bound("reservoir_hw")
    /\ rectangular_arrangement[RectangleOfIndex(row)].layer = "reservoir"
    /\ rectangular_arrangement[RectangleOfIndex(col)].layer = "inhibitory"

(***************************************************************************)
(* C7.  One readout unit per anomaly: a readout layer (readout,            *)
(* readout_hw) has exactly NUM_ANOM_CLASSES output units as constructed,   *)
(* and readout_hw still has exactly NUM_ANOM_CLASSES output units once the *)
(* pre-trained hardware weights and bias are loaded, whenever the stored   *)
(* file has at least that many columns.                                    *)
(***************************************************************************)
C7_HwFile ==
    IF nb = "hardware" THEN "network/readout_weights_hw.npy"
    ELSE "network/readout_weights_hw.py"

C7_OneUnitPerAnomaly ==
    /\ \A n \in {"readout", "readout_hw"} :
          (Bound(n) /\ At(n).weights = "zeros") => At(n).size = NUM_ANOM_CLASSES(nb)
    /\ (/\ Bound("readout_hw")
        /\ At("readout_hw").weights # "zeros"
        /\ files[C7_HwFile].cols >= NUM_ANOM_CLASSES(nb))
          => At("readout_hw").size = NUM_ANOM_CLASSES(nb)

C7_Witness ==
    /\ Bound("readout_hw")
    /\ At("readout_hw").weights = C7_HwFile
    /\ At("readout_hw").bias # "0"
    /\ files[C7_HwFile].cols > NUM_ANOM_CLASSES(nb)
    /\ At("readout_hw").size = NUM_ANOM_CLASSES(nb)

(***************************************************************************)
(* C8.  Order of the steps of a run, for each of the two networks: every   *)
(* evolve of a network comes after the creation of the data loader, after  *)
(* the construction of its layers and of the network, and after the        *)
(* pre-trained weights and bias of its readout were loaded, which in turn  *)
(* comes after the construction of the readout; the results of a network   *)
(* are plotted only after its evolve; no output was computed with the      *)
(* all-zero construction weights or bias.                                  *)
(***************************************************************************)
C8_Pipeline(enc, res, ro, net) ==
    /\ Before("data_loader", enc)
    /\ Before(ro, ro \o ".weights")
    /\ Before(ro, ro \o ".bias")
    /\ \A a \in {"data_loader", enc, res, ro, net, ro \o ".weights", ro \o ".bias"} :
          Before(a, net \o ".evolve")

C8_LoadBeforeInference ==
    /\ C8_Pipeline("spike_enc", "reservoir", "readout", "sw_net")
    /\ C8_Pipeline("spike_enc", "reservoir_hw", "readout_hw", "hw_net")
    /\ Before("sw_net.evolve", "plot sw output")
    /\ Before("hw_net.evolve", "plot hw output")
    /\ Before("hw_net.evolve", "plot hw stages")
    /\ \A k \in DOMAIN heap :
          heap[k].type = "netdata" => heap[k].weights # "zeros" /\ heap[k].bias # "0"

C8_Witness ==
    /\ Done("plot sw output")
    /\ Done("plot hw output")
    /\ Bound("net_data") /\ At("net_data").weights = "network/readout_weights.npy"
    /\ Bound("net_data_hw") /\ At("net_data_hw").weights = "network/readout_weights_hw.npy"
    /\ At("net_data_hw").net = env["hw_net"]

(***************************************************************************)
(* C9.  On the hardware path the circuit biases are loaded first, then     *)
(* the hot neurons are silenced, and only then is the hardware reservoir   *)
(* layer created, and only then evolved: no hardware evolve before         *)
(* silence_hot_neurons has completed.                                      *)
(***************************************************************************)
C9_ControllerOrder ==
    /\ Before("load_biases", "silence_hot_neurons")
    /\ Before("silence_hot_neurons", "reservoir_hw")
    /\ Before("reservoir_hw", "hw_net.evolve")
    /\ Before("silence_hot_neurons", "hw_net.evolve")
    /\ Done("silence_hot_neurons") =>
          At("controller").biases /\ At("controller").silenced
    /\ \A k \in DOMAIN heap :
          heap[k].type = "RecDynapSE" =>
             At("controller").biases /\ At("controller").silenced

C9_Witness ==
    /\ Done("hw_net.evolve")
    /\ Bound("hot_neurons")
    /\ At("controller").biases
    /\ At("controller").silenced

(***************************************************************************)
(* C11.  In the generated expansion weights (the matrix the generation     *)
(* lines save), every one of the 128 expansion neurons (columns) has a     *)
(* nonzero weight from exactly one of the four input channels (rows), that *)
(* weight is an integer between 1 and MAX_FANIN = 64, and every input      *)
(* channel drives exactly 32 expansion neurons.                            *)
(***************************************************************************)
C11_Generated == saved["weights/weights_expand.npy"]

C11_Drivers(W, c) == {r \in DOMAIN W : W[r][c] # 0}

C11_Driven(W, r) == {c \in DOMAIN W[r] : W[r][c] # 0}

C11_OneChannelPerNeuron ==
    gen_pc = "saved" =>
        LET W == C11_Generated
        IN /\ DOMAIN W = 0..3
           /\ \A r \in DOMAIN W : DOMAIN W[r] = 0..127
           /\ \A c \in 0..127 :
                 /\ Cardinality(C11_Drivers(W, c)) = 1
                 /\ \A r \in C11_Drivers(W, c) :
                       W[r][c] \in Int /\ 1 <= W[r][c] /\ W[r][c] <= 64
           /\ \A r \in 0..3 : Cardinality(C11_Driven(W, r)) = 32

C11_Witness ==
    /\ gen_pc = "saved"
    /\ \E c \in 0..127 : C11_Generated[3][c] = MAX_FANIN
    /\ \E c \in 0..127 : C11_Generated[0][c] = 1
    /\ C11_Generated[1][32] # 0

(***************************************************************************)
(* C12.  The hardware network has a readout object of its own: readout_hw  *)
(* and readout are two objects, and once the pre-trained hardware weights  *)
(* and bias are assigned to readout_hw the software readout still has the  *)
(* weights, the bias and the number of units it had before (those loaded   *)
(* from the software files); the spike encoder of sw_net and of hw_net is  *)
(* one and the same object, spike_enc.                                     *)
(***************************************************************************)
C12_SeparateReadout ==
    /\ (Bound("readout") /\ Bound("readout_hw")) =>
          env["readout"] # env["readout_hw"]
    /\ (Bound("readout") /\ Bound("readout_hw") /\ Done("readout_hw.weights")) =>
          /\ At("readout").weights = "network/readout_weights.npy"
          /\ At("readout").size = NUM_ANOM_CLASSES(nb)
    /\ (Bound("readout") /\ Bound("readout_hw") /\ Done("readout_hw.bias")) =>
          /\ At("readout").bias = "network/readout_bias.npy"
          /\ At("readout").bias_len = NUM_ANOM_CLASSES(nb)
    /\ (Bound("sw_net") /\ Bound("hw_net")) =>
          /\ At("sw_net").layers[1] = env["spike_enc"]
          /\ At("hw_net").layers[1] = env["spike_enc"]
          /\ At("sw_net").layers[3] = env["readout"]
          /\ At("hw_net").layers[3] = env["readout_hw"]
          /\ At("sw_net").layers[3] # At("hw_net").layers[3]

C12_Witness ==
    /\ Bound("sw_net") /\ Bound("hw_net")
    /\ Done("readout_hw.bias")
    /\ At("readout_hw").weights = "network/readout_weights_hw.npy"
    /\ At("readout_hw").bias = "network/readout_bias_hw.npy"
    /\ At("readout").weights = "network/readout_weights.npy"
    /\ At("readout_hw").size # At("readout").size

(***************************************************************************)
(* C13.  In the training loop every batch the generator yields is evolved  *)
(* through the network exactly once, and the output of that evolve is then *)
(* used for exactly one train_rr call, with the batch's own is_first and   *)
(* is_last flags, before the next batch is taken; reset_all is called only *)
(* once the last batch has been trained on, and the readout weights and    *)
(* bias are saved only after reset_all.                                    *)
(***************************************************************************)
C13_Ops(op) == {p \in DOMAIN calls : calls[p].op = op}

C13_Of(op, k) == {p \in C13_Ops(op) : calls[p].batch = k}

C13_TrainingOrder ==
    \* an evolve is of the batch just taken, on the loop's network
    /\ \A p \in C13_Ops("evolve") :
          /\ p > 1 /\ calls[p - 1].op = "next" /\ calls[p - 1].batch = calls[p].batch
          /\ calls[p].obj = TrainNet(loop)
    \* a train_rr is of the batch just evolved, with the output of that
    \* evolve and the flags the batch was yielded with
    /\ \A p \in C13_Ops("train_rr") :
          /\ p > 2 /\ calls[p - 1].op = "evolve" /\ calls[p - 1].batch = calls[p].batch
          /\ calls[p].input = calls[p].batch
          /\ calls[p].obj = TrainReadout(loop)
          /\ calls[p].is_first = calls[p - 2].is_first
          /\ calls[p].is_last = calls[p - 2].is_last
    \* a batch is taken only when the one before it has been trained on
    /\ \A p \in C13_Ops("next") :
          /\ p > 1 => calls[p - 1].op = "train_rr"
          /\ Cardinality(C13_Of("next", calls[p].batch)) = 1
          /\ Cardinality(C13_Of("evolve", calls[p].batch)) <= 1
          /\ Cardinality(C13_Of("train_rr", calls[p].batch)) <= 1
          /\ p + 2 < Len(calls) =>
                /\ Cardinality(C13_Of("evolve", calls[p].batch)) = 1
                /\ Cardinality(C13_Of("train_rr", calls[p].batch)) = 1
    \* reset_all: once, after the last batch, and nothing of the loop after it
    /\ Cardinality(C13_Ops("reset_all")) <= 1
    /\ \A p \in C13_Ops("reset_all") :
          /\ batch_gen = << >>
          /\ p > 1 => calls[p - 1].op = "train_rr"
          /\ \A q \in DOMAIN calls : q > p => calls[q].op \in {"save_weights", "save_bias"}
    \* the saves come after reset_all
    /\ \A p \in C13_Ops("save_weights") \cup C13_Ops("save_bias") :
          \E q \in C13_Ops("reset_all") : q < p
    /\ \A f \in DOMAIN saved : C13_Ops("reset_all") # {}

C13_Witness ==
    /\ train_pc = "done"
    /\ Cardinality(C13_Ops("next")) >= 2
    /\ Cardinality(C13_Ops("train_rr")) = Cardinality(C13_Ops("next"))
    /\ \E p \in C13_Ops("train_rr") : calls[p].is_first /\ ~calls[p].is_last
    /\ \E p \in C13_Ops("train_rr") : calls[p].is_last /\ ~calls[p].is_first
    /\ NpSaveFile(SavePathBias(loop)) \in DOMAIN saved
    /\ NpSaveFile(SavePathWeights(loop)) \in DOMAIN saved

====
